---- MODULE Spec2Model ----
(***************************************************************************)
(* simd_iter: a slice of scalars is split by <[T]>::as_simd into           *)
(* (prefix, vectors, postfix); SimdIter walks the aligned body, and        *)
(* SimdIterPadded adds the ragged prefix/postfix as one padded group each. *)
(* The scalar_* reductions fold the padded groups lane-wise and reduce the *)
(* final group horizontally.                                               *)
(*                                                                         *)
(* Elements are 8-bit integers kept as bit patterns 0..255 (u8, or i8 in   *)
(* two's complement).  Memory is addressed in elements: the input occupies *)
(* positions 1..Len(xs); what lies after it belongs to somebody else.      *)
(*                                                                         *)
(* Spec is the iterator protocol (next, nth, padded_with, the padded       *)
(* next); SpecReduce applies each scalar_* reduction to a newly built      *)
(* SimdIter; SpecPad does so on every one-element input; SpecWidths runs   *)
(* a reduction, splits the same data again at any width and alignment and  *)
(* runs it once more; SpecSplit concatenates the parts of a split and      *)
(* splits the result again.                                                *)
(***************************************************************************)
EXTENDS Integers, Sequences, FiniteSets, TLC

\* Longest input slice drawn.
MaxLen == 4

\* Width in bits of the element types u8 / i8.
BITS == 8

Modulus == 2 ^ BITS

\* The element values the reductions' inputs, the pad values and the memory
\* after the input are drawn from: 0, 1, i8::MAX, i8::MIN, u8::MAX (= -1i8).
Samples == {0, 1, 127, 128, 255}

\* The element values the iterators' inputs are drawn from.
IterSamples == {0, 1, 255}

\* The values a readable cell after the input may hold.
Foreign == {0, 1, 255}

\* LANES values with LaneCount<LANES>: SupportedLaneCount.
LaneWidths == {1, 2, 4}

ElemTypes == {"u8", "i8"}

\* Option<_>: None is the empty sequence, Some(v) the one-element sequence.
None == << >>

Some(v) == << v >>

\* `ret` before the live iterator's first call: no group has zero lanes.
NotCalled == Some(<< >>)

VARIABLES
    xs,         \* the caller's slice
    LANES,      \* the const generic LANES
    align,      \* ptr.align_offset(align_of::<Simd<T, LANES>>()), in elements
    mode,       \* "iter": a SimdIter is live; "padded": a SimdIterPadded;
                \* "done": a reduction returned; "fault": an over-read trapped
    iter,       \* the SimdIter (the `inner` of a SimdIterPadded)
    pad_value,  \* SimdIterPadded.pad_value
    ret,        \* what the last next()/nth() on the live iterator returned
    yielded,    \* history: the groups the SimdIterPadded has yielded
    fresh,      \* history: no body group has been consumed through SimdIter
    result,     \* what the reductions returned, oldest first
    maxread,    \* history: the highest position read through from_raw_parts
    taken       \* history: the partition that was concatenated and split again

vars == << xs, LANES, align, mode, iter, pad_value, ret, yielded, fresh,
           result, maxread, taken >>

-----------------------------------------------------------------------------
(* Scalars *)

ToSigned(v) == IF v >= 2 ^ (BITS - 1) THEN v - Modulus ELSE v

\* Ord on the element type.
Less(ty, a, b) == IF ty = "i8" THEN ToSigned(a) < ToSigned(b) ELSE a < b

RECURSIVE BitAnd(_, _)
BitAnd(a, b) ==
    IF a = 0 \/ b = 0 THEN 0
    ELSE (IF a % 2 = 1 /\ b % 2 = 1 THEN 1 ELSE 0) + 2 * BitAnd(a \div 2, b \div 2)

RECURSIVE BitOr(_, _)
BitOr(a, b) ==
    IF a = 0 THEN b
    ELSE IF b = 0 THEN a
    ELSE (IF a % 2 = 1 \/ b % 2 = 1 THEN 1 ELSE 0) + 2 * BitOr(a \div 2, b \div 2)

RECURSIVE BitXor(_, _)
BitXor(a, b) ==
    IF a = 0 THEN b
    ELSE IF b = 0 THEN a
    ELSE (IF a % 2 # b % 2 THEN 1 ELSE 0) + 2 * BitXor(a \div 2, b \div 2)

\* !x on BITS bits.
BitNot(a) == Modulus - 1 - a

zero == 0

one == 1

\* Mutant: every type's minimum is padded with the signed maximum.
min_identity_signed(ty) == 2 ^ (BITS - 1) - 1

min_identity(ty) == IF ty = "i8" THEN 2 ^ (BITS - 1) - 1 ELSE Modulus - 1

\* Mutant: every type's maximum is padded with zero.
max_identity_unsigned(ty) == 0

max_identity(ty) == IF ty = "i8" THEN 2 ^ (BITS - 1) ELSE 0

-----------------------------------------------------------------------------
(* Slices: a pointer (an element position) and a length *)

Slice(p, n) == [ptr |-> p, len |-> n]

\* &[]
EmptySlice == Slice(0, 0)

\* The elements of a scalar slice that lies inside the input.
Elems(s) == [i \in 1 .. s.len |-> xs[s.ptr + i - 1]]

\* Group i (from 0) of a slice of Simd<T, LANES>.
Group(s, i) == [l \in 1 .. LANES |-> xs[s.ptr + i * LANES + l - 1]]

\* Mutant: the postfix starts where the body starts.
as_simd_overlap(data, n, off) ==
    IF off > Len(data)
    THEN [prefix |-> Slice(1, Len(data)), vectors |-> EmptySlice,
          postfix |-> EmptySlice]
    ELSE LET rest == Len(data) - off
         IN  [prefix  |-> Slice(1, off),
              vectors |-> Slice(1 + off, rest \div n),
              postfix |-> Slice(1 + off, rest % n)]

\* Mutant: an input in which no whole group fits is all prefix.
as_simd_allprefix(data, n, off) ==
    IF off > Len(data) \/ Len(data) - off < n
    THEN [prefix |-> Slice(1, Len(data)), vectors |-> EmptySlice,
          postfix |-> EmptySlice]
    ELSE LET rest == Len(data) - off
         IN  [prefix  |-> Slice(1, off),
              vectors |-> Slice(1 + off, rest \div n),
              postfix |-> Slice(1 + off + n * (rest \div n), rest % n)]

\* Mutant: the last whole group is left out of the body.
as_simd_shortbody(data, n, off) ==
    IF off > Len(data)
    THEN [prefix |-> Slice(1, Len(data)), vectors |-> EmptySlice,
          postfix |-> EmptySlice]
    ELSE LET rest == Len(data) - off
         IN  [prefix  |-> Slice(1, off),
              vectors |-> Slice(1 + off, IF rest < n THEN 0 ELSE rest \div n - 1),
              postfix |-> Slice(1 + off + n * (rest \div n), rest % n)]

\* <[T]>::as_simd, as simd_iter_with_width calls it: align_to splits off the
\* `off` elements before the first aligned address, then as many whole groups
\* as fit; a slice that ends before that address is all prefix.
as_simd(data, n, off) ==
    IF off > Len(data)
    THEN [prefix |-> Slice(1, Len(data)), vectors |-> EmptySlice,
          postfix |-> EmptySlice]
    ELSE LET rest == Len(data) - off
         IN  [prefix  |-> Slice(1, off),
              vectors |-> Slice(1 + off, rest \div n),
              postfix |-> Slice(1 + off + n * (rest \div n), rest % n)]

simd_iter_with_width == as_simd(xs, LANES, align)

-----------------------------------------------------------------------------
(* SimdIter *)

\* Mutant: split_last instead of split_first.
SimdIter_next_last(it) ==
    IF it.vectors.len > 0
    THEN [it   |-> [it EXCEPT !.vectors = Slice(it.vectors.ptr, it.vectors.len - 1)],
          item |-> Some([l \in 1 .. LANES |->
                            xs[it.vectors.ptr + (it.vectors.len - 1) * LANES + l - 1]])]
    ELSE [it |-> it, item |-> None]

\* split_first on vectors.
SimdIter_next(it) ==
    IF it.vectors.len > 0
    THEN [it   |-> [it EXCEPT !.vectors =
                        Slice(it.vectors.ptr + LANES, it.vectors.len - 1)],
          item |-> Some(Group(it.vectors, 0))]
    ELSE [it |-> it, item |-> None]

size_hint(it) == << it.vectors.len, Some(it.vectors.len) >>

\* ExactSizeIterator::len
SimdIter_len(it) == size_hint(it)[1]

\* Mutant: an nth past the end leaves the body in place.
SimdIter_nth_noclear(it, n) ==
    IF n < it.vectors.len
    THEN [it   |-> [it EXCEPT !.vectors =
                        Slice(it.vectors.ptr + (n + 1) * LANES, it.vectors.len - n - 1)],
          item |-> Some([l \in 1 .. LANES |-> xs[it.vectors.ptr + n * LANES + l - 1]])]
    ELSE [it |-> it, item |-> None]

SimdIter_nth(it, n) ==
    IF n < SimdIter_len(it)
    THEN SimdIter_next([it EXCEPT !.vectors =
                            Slice(it.vectors.ptr + n * LANES, it.vectors.len - n)])
    ELSE [it |-> [it EXCEPT !.vectors = EmptySlice], item |-> None]

-----------------------------------------------------------------------------
(* SimdIterPadded *)

\* The memory after the input: `env` is the run of readable cells that
\* follows position Len(xs); a read past them traps.
Readable(pos, env) == pos <= Len(xs) + Len(env)

Cell(pos, env) == IF pos <= Len(xs) THEN xs[pos] ELSE env[pos - Len(xs)]

\* Mutant: simd_le instead of simd_lt.
LaneMask_le(values) == [l \in 1 .. LANES |-> (l - 1) <= values.len]

\* iota.simd_lt(splat(values.len())): lane i (from 0) is real data.
LaneMask(values) == [l \in 1 .. LANES |-> (l - 1) < values.len]

\* from_raw_parts(values.as_ptr(), LANES): LANES cells from the slice's start.
RawRead(values, env) == [l \in 1 .. LANES |-> Cell(values.ptr + l - 1, env)]

\* mask.select(vec, splat(pad_value))
Select(mask, vec, pad) == [l \in 1 .. LANES |-> IF mask[l] THEN vec[l] ELSE pad]

\* The closure try_take_slice_padded, on a non-empty slice.
PaddedGroup(values, pad, env) ==
    Select(LaneMask(values), RawRead(values, env), pad)

\* The highest position the closure's read touches.
ReadEnd(values) == values.ptr + LANES - 1

\* Mutant: the body, or else the prefix, or else the postfix.
Padded_next_bodyfirst(it, pad, env) ==
    IF it.vectors.len > 0
    THEN [it    |-> [it EXCEPT !.vectors =
                         Slice(it.vectors.ptr + LANES, it.vectors.len - 1)],
          item  |-> Some([l \in 1 .. LANES |-> xs[it.vectors.ptr + l - 1]]),
          fault |-> FALSE,
          top   |-> 0]
    ELSE LET values == IF it.prefix.len > 0 THEN it.prefix ELSE it.postfix
             ok == values.ptr + LANES - 1 <= Len(xs) + Len(env)
         IN  IF values.len = 0
             THEN [it |-> it, item |-> None, fault |-> FALSE, top |-> 0]
             ELSE [it    |-> IF it.prefix.len > 0
                             THEN [it EXCEPT !.prefix = EmptySlice]
                             ELSE [it EXCEPT !.postfix = EmptySlice],
                   item  |-> IF ok
                             THEN Some([l \in 1 .. LANES |->
                                          IF l - 1 < values.len
                                          THEN xs[values.ptr + l - 1] ELSE pad])
                             ELSE None,
                   fault |-> ~ok,
                   top   |-> values.ptr + LANES - 1]

\* SimdIterPadded::next: the prefix, or else the body, or else the postfix.
\* `fault` says the read left readable memory; `top` is the highest position
\* it touched (0: no raw read).
Padded_next(it, pad, env) ==
    IF it.prefix.len > 0
    THEN [it    |-> [it EXCEPT !.prefix = EmptySlice],
          item  |-> IF Readable(ReadEnd(it.prefix), env)
                    THEN Some(PaddedGroup(it.prefix, pad, env)) ELSE None,
          fault |-> ~Readable(ReadEnd(it.prefix), env),
          top   |-> ReadEnd(it.prefix)]
    ELSE IF it.vectors.len > 0
    THEN [it    |-> SimdIter_next(it).it,
          item  |-> SimdIter_next(it).item,
          fault |-> FALSE,
          top   |-> 0]
    ELSE IF it.postfix.len > 0
    THEN [it    |-> [it EXCEPT !.postfix = EmptySlice],
          item  |-> IF Readable(ReadEnd(it.postfix), env)
                    THEN Some(PaddedGroup(it.postfix, pad, env)) ELSE None,
          fault |-> ~Readable(ReadEnd(it.postfix), env),
          top   |-> ReadEnd(it.postfix)]
    ELSE [it |-> it, item |-> None, fault |-> FALSE, top |-> 0]

\* Mutant: the pending postfix is not counted.
Padded_size_hint_nopostfix(it) ==
    LET n == SimdIter_len(it)
             + (IF it.prefix.len # 0 THEN 1 ELSE 0)
    IN  << n, Some(n) >>

Padded_size_hint(it) ==
    LET n == SimdIter_len(it)
             + (IF it.prefix.len # 0 THEN 1 ELSE 0)
             + (IF it.postfix.len # 0 THEN 1 ELSE 0)
    IN  << n, Some(n) >>

\* How far past the input the raw reads of the remainders still pending reach.
Overshoot(values) ==
    IF values.len > 0 /\ ReadEnd(values) > Len(xs)
    THEN ReadEnd(values) - Len(xs) ELSE 0

Max(a, b) == IF a >= b THEN a ELSE b

\* The memories that matter to a read reaching `need` cells past the input.
Envs(need) == UNION {[1 .. k -> Foreign] : k \in 0 .. need}

-----------------------------------------------------------------------------
(* Lane-wise combiners and horizontal reductions of Simd<T, LANES> *)

\* core::ops::Add::add on integer vectors wraps lane by lane.
simd_add(a, b) == [l \in DOMAIN a |-> (a[l] + b[l]) % Modulus]

simd_mul(a, b) == [l \in DOMAIN a |-> (a[l] * b[l]) % Modulus]

simd_min(ty, a, b) == [l \in DOMAIN a |-> IF Less(ty, b[l], a[l]) THEN b[l] ELSE a[l]]

simd_max(ty, a, b) == [l \in DOMAIN a |-> IF Less(ty, a[l], b[l]) THEN b[l] ELSE a[l]]

simd_bitand(a, b) == [l \in DOMAIN a |-> BitAnd(a[l], b[l])]

simd_bitor(a, b) == [l \in DOMAIN a |-> BitOr(a[l], b[l])]

simd_bitxor(a, b) == [l \in DOMAIN a |-> BitXor(a[l], b[l])]

\* The closure each scalar_* hands to Iterator::reduce.
Combine(op, ty, a, b) ==
    CASE op = "sum"     -> simd_add(a, b)
      [] op = "product" -> simd_mul(a, b)
      [] op = "min"     -> simd_min(ty, a, b)
      [] op = "max"     -> simd_max(ty, a, b)
      [] op = "and"     -> simd_bitand(a, b)
      [] op = "or"      -> simd_bitor(a, b)
      [] op = "xor"     -> simd_bitxor(a, b)

RECURSIVE reduce_sum(_)
reduce_sum(v) ==
    IF Len(v) = 1 THEN v[1]
    ELSE (reduce_sum(SubSeq(v, 1, Len(v) - 1)) + v[Len(v)]) % Modulus

RECURSIVE reduce_product(_)
reduce_product(v) ==
    IF Len(v) = 1 THEN v[1]
    ELSE (reduce_product(SubSeq(v, 1, Len(v) - 1)) * v[Len(v)]) % Modulus

RECURSIVE reduce_min(_, _)
reduce_min(ty, v) ==
    IF Len(v) = 1 THEN v[1]
    ELSE LET m == reduce_min(ty, SubSeq(v, 1, Len(v) - 1))
         IN  IF Less(ty, v[Len(v)], m) THEN v[Len(v)] ELSE m

RECURSIVE reduce_max(_, _)
reduce_max(ty, v) ==
    IF Len(v) = 1 THEN v[1]
    ELSE LET m == reduce_max(ty, SubSeq(v, 1, Len(v) - 1))
         IN  IF Less(ty, m, v[Len(v)]) THEN v[Len(v)] ELSE m

RECURSIVE reduce_and(_)
reduce_and(v) ==
    IF Len(v) = 1 THEN v[1]
    ELSE BitAnd(reduce_and(SubSeq(v, 1, Len(v) - 1)), v[Len(v)])

RECURSIVE reduce_or(_)
reduce_or(v) ==
    IF Len(v) = 1 THEN v[1]
    ELSE BitOr(reduce_or(SubSeq(v, 1, Len(v) - 1)), v[Len(v)])

RECURSIVE reduce_xor(_)
reduce_xor(v) ==
    IF Len(v) = 1 THEN v[1]
    ELSE BitXor(reduce_xor(SubSeq(v, 1, Len(v) - 1)), v[Len(v)])

\* The horizontal reduction each scalar_* applies to the folded group.
Horizontal(op, ty, v) ==
    CASE op = "sum"     -> reduce_sum(v)
      [] op = "product" -> reduce_product(v)
      [] op = "min"     -> reduce_min(ty, v)
      [] op = "max"     -> reduce_max(ty, v)
      [] op = "and"     -> reduce_and(v)
      [] op = "or"      -> reduce_or(v)
      [] op = "xor"     -> reduce_xor(v)

-----------------------------------------------------------------------------
(* The reductions *)

\* Iterator::reduce on a SimdIterPadded: the first group, then a left fold of
\* the rest.  [fault, val: Option<group>, top: highest position read].
RECURSIVE Padded_fold(_, _, _, _, _, _, _)
Padded_fold(op, ty, acc, it, pad, env, top) ==
    LET s == Padded_next(it, pad, env)
    IN  IF s.fault THEN [fault |-> TRUE, val |-> None, top |-> Max(top, s.top)]
        ELSE IF s.item = None THEN [fault |-> FALSE, val |-> acc, top |-> top]
        ELSE Padded_fold(op, ty,
                         IF acc = None THEN s.item
                         ELSE Some(Combine(op, ty, acc[1], s.item[1])),
                         s.it, pad, env, Max(top, s.top))

\* padded_with(pad) followed by Iterator::reduce; `pad` is the pad_value of the
\* SimdIterPadded the reduction ran on.
Padded_reduce(op, ty, it, pad, env) ==
    LET r == Padded_fold(op, ty, None, it, pad, env, 0)
    IN  [fault |-> r.fault, val |-> r.val, top |-> r.top, pad |-> pad]

\* Mutant: the empty product is zero.
NumExt_scalar_product_zero(it, pad, env) ==
    LET r == Padded_reduce("product", "u8", it, pad, env)
    IN  [r EXCEPT !.val = IF r.val = None THEN zero ELSE reduce_product(r.val[1])]

\* SimdNumIterExt::scalar_sum / scalar_product on the padded iterator
NumExt_scalar_sum(it, pad, env) ==
    LET r == Padded_reduce("sum", "u8", it, pad, env)
    IN  [r EXCEPT !.val = IF r.val = None THEN zero ELSE reduce_sum(r.val[1])]

NumExt_scalar_product(it, pad, env) ==
    LET r == Padded_reduce("product", "u8", it, pad, env)
    IN  [r EXCEPT !.val = IF r.val = None THEN one ELSE reduce_product(r.val[1])]

\* SimdOrdIterExt::scalar_min / scalar_max
OrdExt_scalar_min(ty, it, pad, env) ==
    LET r == Padded_reduce("min", ty, it, pad, env)
    IN  [r EXCEPT !.val = IF r.val = None THEN None ELSE Some(reduce_min(ty, r.val[1]))]

OrdExt_scalar_max(ty, it, pad, env) ==
    LET r == Padded_reduce("max", ty, it, pad, env)
    IN  [r EXCEPT !.val = IF r.val = None THEN None ELSE Some(reduce_max(ty, r.val[1]))]

\* SimdIntegerIterExt::scalar_reduce_and / _or / _xor
IntExt_scalar_reduce_and(it, pad, env) ==
    LET r == Padded_reduce("and", "u8", it, pad, env)
    IN  [r EXCEPT !.val = IF r.val = None THEN None ELSE Some(reduce_and(r.val[1]))]

IntExt_scalar_reduce_or(it, pad, env) ==
    LET r == Padded_reduce("or", "u8", it, pad, env)
    IN  [r EXCEPT !.val = IF r.val = None THEN None ELSE Some(reduce_or(r.val[1]))]

IntExt_scalar_reduce_xor(it, pad, env) ==
    LET r == Padded_reduce("xor", "u8", it, pad, env)
    IN  [r EXCEPT !.val = IF r.val = None THEN None ELSE Some(reduce_xor(r.val[1]))]

\* Mutant: the sum is padded with one.
scalar_sum_padone(it, env) == NumExt_scalar_sum(it, one, env)

\* Mutant: the AND is padded with zero.
scalar_reduce_and_padzero(it, env) == IntExt_scalar_reduce_and(it, zero, env)

\* SimdIter::scalar_*: padded_with(the operation's pad value), then the
\* extension method.
scalar_sum(it, env) == NumExt_scalar_sum(it, zero, env)

scalar_product(it, env) == NumExt_scalar_product(it, one, env)

scalar_min(ty, it, env) == OrdExt_scalar_min(ty, it, min_identity(ty), env)

scalar_max(ty, it, env) == OrdExt_scalar_max(ty, it, max_identity(ty), env)

scalar_reduce_and(it, env) == IntExt_scalar_reduce_and(it, BitNot(zero), env)

scalar_reduce_or(it, env) == IntExt_scalar_reduce_or(it, zero, env)

\* Mutant: the XOR is padded with all ones.
scalar_reduce_xor_padones(it, env) == IntExt_scalar_reduce_xor(it, BitNot(zero), env)

scalar_reduce_xor(it, env) == IntExt_scalar_reduce_xor(it, zero, env)

-----------------------------------------------------------------------------
(* The iterator protocol: next, nth, padded_with, and the padded next *)

Inputs == UNION {[1 .. k -> Samples] : k \in 0 .. MaxLen}

IterInputs == UNION {[1 .. k -> IterSamples] : k \in 0 .. MaxLen}

\* nth's argument: up to one more than any iterator holds.
NthArgs == 0 .. MaxLen + 1

\* x.simd_iter_with_width::<LANES>() on a slice at some alignment.
Constructed ==
    /\ LANES \in LaneWidths
    /\ align \in 0 .. LANES - 1
    /\ mode = "iter"
    /\ iter = simd_iter_with_width
    /\ pad_value = zero
    /\ ret = NotCalled
    /\ yielded = << >>
    /\ fresh = TRUE
    /\ result = None
    /\ maxread = 0
    /\ taken = None

Init == xs \in IterInputs /\ Constructed

\* SimdIter::next
StepNext ==
    /\ mode = "iter"
    /\ iter' = SimdIter_next(iter).it
    /\ ret' = SimdIter_next(iter).item
    /\ fresh' = (fresh /\ iter.vectors.len = 0)
    /\ UNCHANGED << taken, xs, LANES, align, mode, pad_value, yielded, result, maxread >>

\* SimdIter::nth
StepNth(n) ==
    /\ mode = "iter"
    /\ iter' = SimdIter_nth(iter, n).it
    /\ ret' = SimdIter_nth(iter, n).item
    /\ fresh' = (fresh /\ iter.vectors.len = 0)
    /\ UNCHANGED << taken, xs, LANES, align, mode, pad_value, yielded, result, maxread >>

\* SimdIter::padded_with
StepPaddedWith ==
    /\ mode = "iter"
    /\ mode' = "padded"
    /\ pad_value' \in Samples
    /\ ret' = NotCalled
    /\ UNCHANGED << taken, xs, LANES, align, iter, yielded, fresh, result, maxread >>

\* How far past the input the remainders still pending make the raw reads reach.
Need(it) == Max(Overshoot(it.prefix), Overshoot(it.postfix))

\* SimdIterPadded::next.  The cells after the input hold whatever the
\* surrounding memory holds at the time of the read, or are not readable.
StepPaddedNext ==
    /\ mode = "padded"
    /\ \E env \in Envs(Need(iter)) :
          LET s == Padded_next(iter, pad_value, env)
          IN  /\ iter' = s.it
              /\ ret' = s.item
              /\ yielded' = yielded \o s.item
              /\ mode' = IF s.fault THEN "fault" ELSE "padded"
              /\ maxread' = Max(maxread, s.top)
    /\ UNCHANGED << taken, xs, LANES, align, pad_value, fresh, result >>

Next ==
    \/ StepNext
    \/ \E n \in NthArgs : StepNth(n)
    \/ StepPaddedWith
    \/ StepPaddedNext

Spec == Init /\ [][Next]_vars

-----------------------------------------------------------------------------
(* The reductions, each applied to a newly constructed SimdIter *)

InitReduce == xs \in Inputs /\ Constructed

\* A reduction consumes the SimdIter and returns r.val, unless a raw read
\* trapped.  `iter` keeps the state the reduction started from.
Reduced(op, ty, r) ==
    /\ mode' = IF r.fault THEN "fault" ELSE "done"
    /\ result' = IF r.fault THEN result
                 ELSE result \o Some([op |-> op, ty |-> ty, val |-> r.val])
    /\ maxread' = Max(maxread, r.top)
    /\ pad_value' = r.pad
    /\ UNCHANGED << taken, xs, LANES, align, iter, ret, yielded, fresh >>

StepScalarSum ==
    /\ mode = "iter"
    /\ \E env \in Envs(Need(iter)) : Reduced("sum", "u8", scalar_sum(iter, env))

StepScalarProduct ==
    /\ mode = "iter"
    /\ \E env \in Envs(Need(iter)) : Reduced("product", "u8", scalar_product(iter, env))

StepScalarMin ==
    /\ mode = "iter"
    /\ \E ty \in ElemTypes : \E env \in Envs(Need(iter)) :
          Reduced("min", ty, scalar_min(ty, iter, env))

StepScalarMax ==
    /\ mode = "iter"
    /\ \E ty \in ElemTypes : \E env \in Envs(Need(iter)) :
          Reduced("max", ty, scalar_max(ty, iter, env))

StepScalarReduceAnd ==
    /\ mode = "iter"
    /\ \E env \in Envs(Need(iter)) : Reduced("and", "u8", scalar_reduce_and(iter, env))

StepScalarReduceOr ==
    /\ mode = "iter"
    /\ \E env \in Envs(Need(iter)) : Reduced("or", "u8", scalar_reduce_or(iter, env))

StepScalarReduceXor ==
    /\ mode = "iter"
    /\ \E env \in Envs(Need(iter)) : Reduced("xor", "u8", scalar_reduce_xor(iter, env))

NextReduce ==
    \/ StepScalarSum
    \/ StepScalarProduct
    \/ StepScalarMin
    \/ StepScalarMax
    \/ StepScalarReduceAnd
    \/ StepScalarReduceOr
    \/ StepScalarReduceXor

SpecReduce == InitReduce /\ [][NextReduce]_vars

-----------------------------------------------------------------------------
(* The reductions on every one-element input of the element type *)

InitPad == xs \in {<< x >> : x \in 0 .. Modulus - 1} /\ Constructed

SpecPad == InitPad /\ [][NextReduce]_vars

-----------------------------------------------------------------------------
(* A reduction once more, on the same data at another width or split *)

\* Whether the caller is about to run `op` for the first time or once more.
Repeats(op) == IF result = None THEN TRUE ELSE result[1].op = op

\* xs.simd_iter_with_width::<LANES'>() once more on the same elements,
\* wherever they now lie, after a reduction has returned.
StepRebuild ==
    /\ mode = "done"
    /\ Len(result) = 1
    /\ LANES' \in LaneWidths
    /\ align' \in 0 .. LANES' - 1
    /\ iter' = as_simd(xs, LANES', align')
    /\ mode' = "iter"
    /\ UNCHANGED << taken, xs, pad_value, ret, yielded, fresh, result, maxread >>

NextWidths ==
    \/ StepRebuild
    \/ Repeats("sum") /\ StepScalarSum
    \/ Repeats("product") /\ StepScalarProduct
    \/ Repeats("min") /\ StepScalarMin
    \/ Repeats("max") /\ StepScalarMax
    \/ Repeats("and") /\ StepScalarReduceAnd
    \/ Repeats("or") /\ StepScalarReduceOr
    \/ Repeats("xor") /\ StepScalarReduceXor

SpecWidths == Init /\ [][NextWidths]_vars
-----------------------------------------------------------------------------
(* The scalar computations the reductions are compared with *)

Front(s) == SubSeq(s, 1, Len(s) - 1)

Last(s) == s[Len(s)]

Range(s) == {s[i] : i \in DOMAIN s}

\* The number an element stands for in its type.
Val(ty, v) == IF ty = "i8" /\ v >= 128 THEN v - 256 ELSE v

RECURSIVE NaiveSum(_)
NaiveSum(s) == IF s = << >> THEN 0 ELSE (NaiveSum(Front(s)) + Last(s)) % 256

RECURSIVE NaiveProduct(_)
NaiveProduct(s) == IF s = << >> THEN 1 ELSE (NaiveProduct(Front(s)) * Last(s)) % 256

NaiveMin(ty, s) ==
    IF s = << >> THEN None
    ELSE Some(CHOOSE m \in Range(s) : \A x \in Range(s) : Val(ty, m) <= Val(ty, x))

NaiveMax(ty, s) ==
    IF s = << >> THEN None
    ELSE Some(CHOOSE m \in Range(s) : \A x \in Range(s) : Val(ty, m) >= Val(ty, x))

\* xs.iter().cloned().reduce(BitAnd::bitand), and so on
RECURSIVE NaiveAnd(_)
NaiveAnd(s) ==
    IF s = << >> THEN None
    ELSE IF Len(s) = 1 THEN Some(s[1])
    ELSE Some(BitAnd(NaiveAnd(Front(s))[1], Last(s)))

RECURSIVE NaiveOr(_)
NaiveOr(s) ==
    IF s = << >> THEN None
    ELSE IF Len(s) = 1 THEN Some(s[1])
    ELSE Some(BitOr(NaiveOr(Front(s))[1], Last(s)))

RECURSIVE NaiveXor(_)
NaiveXor(s) ==
    IF s = << >> THEN None
    ELSE IF Len(s) = 1 THEN Some(s[1])
    ELSE Some(BitXor(NaiveXor(Front(s))[1], Last(s)))

\* A reduction `op` has returned.
Returned(op) == mode = "done" /\ result # None /\ result[1].op = op

\* The split the input was given: all three parts non-empty.
ThreeParts == iter.prefix.len > 0 /\ iter.vectors.len > 0 /\ iter.postfix.len > 0

-----------------------------------------------------------------------------
\* C1: on a newly built SimdIter, scalar_sum and scalar_product return the
\* left-to-right scalar fold of the whole input, modulo 2^8, for every input,
\* width and split, whatever the memory after the input holds.
C1_SumProductEqualNaiveFold ==
    /\ Returned("sum") => result[1].val = NaiveSum(xs)
    /\ Returned("product") => result[1].val = NaiveProduct(xs)

\* A sum over prefix, body and postfix that wrapped, after a read past the input.
C1_Witness ==
    /\ Returned("sum")
    /\ ThreeParts
    /\ xs[1] + xs[2] + xs[3] + xs[4] > 256
    /\ result[1].val = (xs[1] + xs[2] + xs[3] + xs[4]) % 256
    /\ maxread > Len(xs)

\* C2: on a newly built SimdIter, scalar_min and scalar_max return the
\* scalar minimum / maximum of the input (also when it equals the pad value),
\* and None for the empty input.
C2_MinMaxEqualNaive ==
    /\ Returned("min") => result[1].val = NaiveMin(result[1].ty, xs)
    /\ Returned("max") => result[1].val = NaiveMax(result[1].ty, xs)

\* The minimum of a ragged u8 input is u8::MAX, the pad value itself.
C2_Witness ==
    /\ Returned("min")
    /\ result[1].ty = "u8"
    /\ Len(xs) = 3
    /\ LANES = 2
    /\ \A i \in 1 .. 3 : xs[i] = 255
    /\ result[1].val = Some(255)

\* C3: on a newly built SimdIter, scalar_reduce_and / _or / _xor return the
\* left-to-right bitwise reduce of the input, and None for the empty input.
C3_BitwiseEqualNaive ==
    /\ Returned("and") => result[1].val = NaiveAnd(xs)
    /\ Returned("or") => result[1].val = NaiveOr(xs)
    /\ Returned("xor") => result[1].val = NaiveXor(xs)

\* An AND over prefix, body and postfix that keeps a bit: 127 & 255 & 1 & 255.
C3_Witness ==
    /\ Returned("and")
    /\ ThreeParts
    /\ xs = << 127, 255, 1, 255 >>
    /\ result[1].val = Some(1)
    /\ maxread > Len(xs)

\* C4: on the empty input the padded iterator yields no group, whatever the
\* pad value; scalar_sum returns 0, scalar_product 1, the other five None;
\* nothing is read and nothing traps.
C4_EmptyInput ==
    Len(xs) = 0 =>
        /\ mode # "fault"
        /\ maxread = 0
        /\ \A pad \in Samples :
              /\ Padded_next(iter, pad, << >>).item = None
              /\ ~Padded_next(iter, pad, << >>).fault
              /\ Padded_size_hint(iter)[1] = 0
        /\ Returned("sum") => result[1].val = 0
        /\ Returned("product") => result[1].val = 1
        /\ mode = "done" /\ result[1].op \notin {"sum", "product"}
              => result[1].val = None

C4_Witness == Len(xs) = 0 /\ Returned("xor") /\ result[1].val = None

-----------------------------------------------------------------------------
(* The split and the iterators *)

\* The elements of the body, group after group.
Flatten(s) ==
    [i \in 1 .. s.len * LANES |-> Group(s, (i - 1) \div LANES)[((i - 1) % LANES) + 1]]

\* The split as simd_iter_with_width built it.
Built == mode = "iter" /\ ret = NotCalled

\* C5: the split built by simd_iter_with_width has a prefix and a postfix
\* shorter than LANES, accounts for every element, and its prefix, its body
\* groups flattened and its postfix together are the input, in order.
C5_PartitionInvariant ==
    Built =>
        /\ iter.prefix.len < LANES
        /\ iter.postfix.len < LANES
        /\ iter.prefix.len + LANES * iter.vectors.len + iter.postfix.len = Len(xs)
        /\ Elems(iter.prefix) \o Flatten(iter.vectors) \o Elems(iter.postfix) = xs

\* A split with all three parts, whose parts differ.
C5_Witness ==
    /\ Built
    /\ ThreeParts
    /\ LANES = 2
    /\ xs = << 255, 0, 1, 255 >>
    /\ Elems(iter.prefix) = << 255 >>
    /\ Flatten(iter.vectors) = << 0, 1 >>
    /\ Elems(iter.postfix) = << 255 >>

\* The parts of the input's split, by position in the input.
SplitPrefixLen == IF align > Len(xs) THEN Len(xs) ELSE align

SplitBodyLen == IF align > Len(xs) THEN 0 ELSE (Len(xs) - align) \div LANES

SplitPostfixLen == Len(xs) - SplitPrefixLen - LANES * SplitBodyLen

\* Body group k, from 0.
BodyGroup(k) == SubSeq(xs, SplitPrefixLen + k * LANES + 1, SplitPrefixLen + (k + 1) * LANES)

\* A run of fewer than LANES elements, filled up to a group with `pad`.
PadTo(s, pad) == [l \in 1 .. LANES |-> IF l <= Len(s) THEN s[l] ELSE pad]

\* What a SimdIterPadded over the whole split is to yield.
ExpectedPadded ==
    (IF SplitPrefixLen > 0
     THEN << PadTo(SubSeq(xs, 1, SplitPrefixLen), pad_value) >> ELSE << >>)
    \o [k \in 1 .. SplitBodyLen |-> BodyGroup(k - 1)]
    \o (IF SplitPostfixLen > 0
        THEN << PadTo(SubSeq(xs, Len(xs) - SplitPostfixLen + 1, Len(xs)), pad_value) >>
        ELSE << >>)

IsPrefix(s, t) == Len(s) <= Len(t) /\ s = SubSeq(t, 1, Len(s))

\* C6: a SimdIterPadded built from a new SimdIter yields the padded prefix
\* group (if any), then every body group in order, then the padded postfix
\* group (if any), each once: len(vectors) + (prefix non-empty) + (postfix
\* non-empty) groups, and None only after the last of them.
C6_PaddedOrder ==
    mode = "padded" /\ fresh =>
        /\ IsPrefix(yielded, ExpectedPadded)
        /\ Len(ExpectedPadded) = SplitBodyLen
                                 + (IF SplitPrefixLen > 0 THEN 1 ELSE 0)
                                 + (IF SplitPostfixLen > 0 THEN 1 ELSE 0)
        /\ ret = None => yielded = ExpectedPadded
        /\ ret # None /\ ret # NotCalled => ret[1] = Last(yielded)

\* All three kinds of group yielded, then None.
C6_Witness ==
    /\ mode = "padded"
    /\ fresh
    /\ ret = None
    /\ LANES = 2
    /\ pad_value = 127
    /\ yielded = << << 255, 127 >>, << 0, 1 >>, << 255, 127 >> >>

\* C7: the group built from a remainder of k elements (1 <= k < LANES) holds
\* the remainder in lanes 0..k and the pad value in lanes k..LANES, whatever
\* the memory after the remainder holds.
C7_PaddedGroupLanes ==
    [][ mode = "padded" /\ mode' = "padded" =>
          /\ iter.prefix.len > 0
                => ret' = Some(PadTo(Elems(iter.prefix), pad_value))
          /\ iter.prefix.len = 0 /\ iter.vectors.len = 0 /\ iter.postfix.len > 0
                => ret' = Some(PadTo(Elems(iter.postfix), pad_value)) ]_vars

\* One real element and three pad lanes, read from three cells past the input.
C7_Witness ==
    /\ mode = "padded"
    /\ LANES = 4
    /\ xs = << 0 >>
    /\ pad_value = 127
    /\ ret = Some(<< 0, 127, 127, 127 >>)
    /\ maxread = 4

\* C8: no raw read of SimdIterPadded::next touches a position after the
\* input's last element.
C8_ReadsStayInsideInput == maxread <= Len(xs)

\* C9: SimdIter::next returns the body groups one by one in order, never an
\* element of the prefix or postfix, and size_hint's two bounds are the
\* number of body groups still to come, before and after each call.
C9_SimdIterYieldsBody ==
    /\ (mode = "iter" => size_hint(iter) = << SplitBodyLen, Some(SplitBodyLen) >>)
    /\ [][ StepNext =>
             LET r == size_hint(iter)[1]
             IN  /\ size_hint(iter) = << r, Some(r) >>
                 /\ r <= SplitBodyLen
                 /\ ret' = IF r > 0 THEN Some(BodyGroup(SplitBodyLen - r)) ELSE None
                 /\ size_hint(iter') = IF r > 0 THEN << r - 1, Some(r - 1) >>
                                       ELSE << 0, Some(0) >>
                 /\ iter'.prefix = iter.prefix
                 /\ iter'.postfix = iter.postfix ]_vars

\* The second of two body groups, returned by next().
C9_Witness ==
    /\ mode = "iter"
    /\ LANES = 2
    /\ align = 0
    /\ xs = << 0, 1, 255, 0 >>
    /\ ret = Some(<< 255, 0 >>)
    /\ size_hint(iter) = << 0, Some(0) >>

\* n + 1 calls of next(): the state they leave and what the last returns.
RECURSIVE NextTimes(_, _)
NextTimes(it, k) ==
    IF k = 1 THEN SimdIter_next(it) ELSE NextTimes(SimdIter_next(it).it, k - 1)

\* Two SimdIter with the same prefix, body and postfix.
SameIter(a, b) ==
    /\ a.vectors.len = b.vectors.len
    /\ \A i \in 0 .. a.vectors.len - 1 : Group(a.vectors, i) = Group(b.vectors, i)
    /\ a.prefix = b.prefix
    /\ a.postfix = b.postfix

\* C10: nth(n) returns what n discarded next() calls and one more return and
\* leaves the same iterator: with r groups left, the group at offset n and
\* r-n-1 groups when n < r, None and no group when n >= r; prefix and
\* postfix stay.
C10_NthIsRepeatedNext ==
    [][ \A n \in NthArgs : StepNth(n) =>
          LET r == iter.vectors.len
          IN  /\ ret' = NextTimes(iter, n + 1).item
              /\ SameIter(iter', NextTimes(iter, n + 1).it)
              /\ n < r => /\ ret' = Some(BodyGroup(SplitBodyLen - r + n))
                          /\ iter'.vectors.len = r - n - 1
              /\ n >= r => ret' = None /\ iter'.vectors.len = 0
              /\ iter'.prefix = iter.prefix
              /\ iter'.postfix = iter.postfix ]_vars

\* nth past the end of a body of two groups: None, and the iterator is empty.
C10_Witness ==
    /\ mode = "iter"
    /\ SplitBodyLen = 2
    /\ ret = None
    /\ iter.vectors = EmptySlice
    /\ ~fresh

\* C11: for a fixed input every reduction returns the same value at every lane
\* width and every split: a second run of the same reduction on the same
\* elements, at any width and alignment, returns what the first run returned.
C11_WidthIndependent ==
    Len(result) = 2 /\ result[2].ty = result[1].ty => result[2].val = result[1].val

\* The first run padded a remainder and read past the input; the second run,
\* at width 1, has no remainder at all.
C11_Witness ==
    /\ mode = "done"
    /\ Len(result) = 2
    /\ result[1].op = "product"
    /\ Len(xs) = 3
    /\ LANES = 1
    /\ maxread > Len(xs)
    /\ result[2].val = 255

\* C12 as stated: when vectors is empty, all elements are in prefix and postfix
\* is empty, so prefix and postfix are never both non-empty.
C12_AllLeftoverInPrefix ==
    Built /\ iter.vectors.len = 0 =>
        /\ Elems(iter.prefix) = xs
        /\ iter.postfix.len = 0
        /\ ~(iter.prefix.len > 0 /\ iter.postfix.len > 0)

\* The number of elements before the first aligned address, at most all.
HeadLen == IF align > Len(xs) THEN Len(xs) ELSE align

\* C12: when vectors is empty, prefix holds the elements before the first
\* aligned address and postfix holds the rest, so postfix is empty only when
\* the input ends at or before that address.
C12_LeftoverSplitAtAlignment ==
    Built /\ iter.vectors.len = 0 =>
        /\ Elems(iter.prefix) = SubSeq(xs, 1, HeadLen)
        /\ Elems(iter.postfix) = SubSeq(xs, HeadLen + 1, Len(xs))
        /\ (iter.postfix.len = 0 <=> align >= Len(xs))

\* Three elements at width 4, one of them before the aligned address: one in
\* prefix, two in postfix, no group.
C12_Witness ==
    /\ Built
    /\ LANES = 4
    /\ Len(xs) = 3
    /\ iter.vectors.len = 0
    /\ iter.prefix.len = 1
    /\ iter.postfix.len = 2

-----------------------------------------------------------------------------
(* The parts of a SimdIter put back together and split again *)

\* The three fields of a SimdIter by content: prefix, body groups, postfix.
Parts(it) ==
    [prefix  |-> Elems(it.prefix),
     vectors |-> [k \in 1 .. it.vectors.len |-> Group(it.vectors, k - 1)],
     postfix |-> Elems(it.postfix)]

\* The elements of the three fields in order, as one new sequence.
Concat(it) == Elems(it.prefix) \o Flatten(it.vectors) \o Elems(it.postfix)

\* The caller copies the parts into one sequence, which lies wherever its
\* buffer lies, and calls simd_iter_with_width::<LANES>() on it.
StepRepartition ==
    /\ mode = "iter"
    /\ xs' = Concat(iter)
    /\ align' \in 0 .. LANES - 1
    /\ iter' = as_simd(xs', LANES, align')
    /\ taken' = Some([align |-> align, parts |-> Parts(iter)])
    /\ UNCHANGED << LANES, mode, pad_value, ret, yielded, fresh, result, maxread >>

NextSplit == StepRepartition

SpecSplit == Init /\ [][NextSplit]_vars

\* C13 as stated: splitting the concatenation of a partition's parts again at
\* the same width gives the same prefix, the same body groups and the same
\* postfix.
C13_RepartitionSame == taken # None => Parts(iter) = taken[1].parts

\* C13: splitting the concatenation of a partition's parts again at the same
\* width gives the same prefix, body groups and postfix when the concatenation
\* lies at the same alignment offset as the input did.
C13_RepartitionSameAtSameAlignment ==
    taken # None /\ align = taken[1].align => Parts(iter) = taken[1].parts

\* Four elements at width 2, one before the aligned address both times: one
\* in prefix, one group, one in postfix, before and after.
C13_Witness ==
    /\ taken # None
    /\ LANES = 2
    /\ align = 1
    /\ taken[1].align = 1
    /\ xs = << 0, 1, 255, 1 >>
    /\ taken[1].parts.vectors = << << 1, 255 >> >>
    /\ ThreeParts

\* The element alone in lane l of a group whose other lanes hold the pad.
PaddedAt(x, p, l) == [k \in 1 .. LANES |-> IF k = l THEN x ELSE p]

\* C15: the pad value a reduction passes to padded_with is neutral for that
\* reduction: for every element x of the 8-bit domain, combining x with the
\* pad in either order gives x, and so does the horizontal reduction of a
\* group that holds x in one lane and the pad in the others.
C15_PadIsNeutral ==
    mode = "done" /\ result # None =>
        LET op == result[1].op
            ty == result[1].ty
            x  == xs[1]
        IN  /\ Combine(op, ty, << x >>, << pad_value >>) = << x >>
            /\ Combine(op, ty, << pad_value >>, << x >>) = << x >>
            /\ \A l \in 1 .. LANES :
                  Horizontal(op, ty, PaddedAt(x, pad_value, l)) = x

\* scalar_max on the i8 -56 (bit pattern 200) at width 4, padded with i8::MIN.
C15_Witness ==
    /\ Returned("max")
    /\ result[1].ty = "i8"
    /\ xs = << 200 >>
    /\ LANES = 4
    /\ pad_value = 128
    /\ result[1].val = Some(200)

\* The number of groups next() yields from `it` on, counted by calling it until
\* it returns None, in a memory whose cells past the input are all readable.
RECURSIVE ToYield(_)
ToYield(it) ==
    LET s == Padded_next(it, zero, [k \in 1 .. Need(it) |-> zero])
    IN  IF s.item = None THEN 0 ELSE 1 + ToYield(s.it)

\* The length a SimdIterPadded reports.
Padded_len == Padded_size_hint(iter)[1]

\* C16: at every point of a SimdIterPadded's life both bounds of size_hint are
\* the number of groups next() will still yield; a next() that returns a group
\* lowers the reported length by exactly 1; next() returns None exactly when
\* the reported length is 0; and after a None, next() changes nothing and
\* returns None again.
C16_PaddedLenCountsDown ==
    /\ [](mode = "padded" =>
             Padded_size_hint(iter) = << ToYield(iter), Some(ToYield(iter)) >>)
    /\ [][mode = "padded" /\ mode' = "padded" =>
             /\ ret' # None => Padded_len' = Padded_len - 1
             /\ ret' = None <=> Padded_len = 0
             /\ Padded_len = 0 => iter' = iter /\ yielded' = yielded
             /\ ret = None => vars' = vars]_vars

\* Width 2, prefix, one body group and postfix: two groups yielded, the
\* postfix still to come, length 1.
C16_Witness ==
    /\ mode = "padded"
    /\ LANES = 2
    /\ Len(yielded) = 2
    /\ ret # None
    /\ iter.postfix.len > 0
    /\ Padded_size_hint(iter) = << 1, Some(1) >>

====
